---- MODULE Spec2Model ----
(***************************************************************************)
(* Model of the job/worker service of flask_app.py: the two tables of the  *)
(* SQLite store, the request handlers that write them (create_job,         *)
(* delete_job, create_worker, bulk_create_workers) and the ones that read  *)
(* them (get_jobs, get_workers, get_job_workers, get_stats).               *)
(*                                                                         *)
(* Python values: a str is a TLA+ string, an int an integer; a value that  *)
(* may be None (a nullable column, an optional JSON key or query           *)
(* parameter) is None or Some(v).  An exception leaving a helper is the    *)
(* value Raised(kind).                                                     *)
(***************************************************************************)
EXTENDS Integers, Sequences, FiniteSets, TLC

VARIABLES jobs, workers, assigned, request, response

vars == <<jobs, workers, assigned, request, response>>

(***************************************************************************)
(* Bounds of the model.                                                    *)
(***************************************************************************)
MaxJobs == 2       \* job ids assigned in one run
MaxWorkers == 2    \* stored workers
MaxBulk == 2       \* entries of one bulk payload

(***************************************************************************)
(* Python values.                                                          *)
(***************************************************************************)
None == <<>>
Some(v) == <<v>>
Val(x) == x[1]
Raised(kind) == <<"raise", kind>>

\* bool(x) of an optional str: None and '' are falsy.
TruthyStr(x) == x # None /\ Val(x) # ""
\* bool(x) of an optional int: None and 0 are falsy.
TruthyInt(x) == x # None /\ Val(x) # 0

Max(S) == CHOOSE m \in S : \A n \in S : n <= m

\* The rows of a table or the entries of a set of integers, ascending.
RECURSIVE Ascending(_)
Ascending(S) ==
    IF S = {} THEN <<>>
    ELSE LET m == Max(S) IN Append(Ascending(S \ {m}), m)

(***************************************************************************)
(* The store.  Job.id and Worker.id are INTEGER PRIMARY KEY columns of a   *)
(* SQLite table declared without AUTOINCREMENT: the rowid given to a new   *)
(* row is one more than the largest rowid in the table, 1 in an empty one. *)
(***************************************************************************)
JobStatuses == {"In Progress", "Completed"}

Ids(table) == {r.id : r \in table}

NextId(table) == IF table = {} THEN 1 ELSE Max(Ids(table)) + 1

\* Job.workers: the Worker rows whose job_id is the job's id, in rowid order.
JobWorkers(job, ws) ==
    LET mine == {w \in ws : w.job_id = Some(job.id)}
        ord == Ascending(Ids(mine))
    IN [i \in 1..Len(ord) |-> CHOOSE w \in mine : w.id = ord[i]]

(***************************************************************************)
(* Helper functions.                                                       *)
(***************************************************************************)
\* datetime.strptime(date_str, '%Y-%m-%d'): a datetime is its yyyymmdd
\* number.  A str that does not match raises ValueError, which is caught;
\* None is not a str and raises TypeError, which is not.
parse_date(date_str) ==
    IF date_str = None THEN Raised("TypeError")
    ELSE CASE Val(date_str) = "2024-03-15" -> Some(20240315)
           [] Val(date_str) = "2024-3-15" -> Some(20240315)
           [] Val(date_str) = "2024-06-15" -> Some(20240615)
           [] OTHER -> None

\* datetime.strftime('%Y-%m-%d')
strftime(dt) ==
    CASE dt = 20240315 -> "2024-03-15"
      [] dt = 20240615 -> "2024-06-15"

format_job(job, ws) ==
    [id |-> job.id,
     name |-> job.name,
     customer |-> job.customer,
     startDate |-> IF job.start_date # None THEN Some(strftime(Val(job.start_date))) ELSE None,
     endDate |-> IF job.end_date # None THEN Some(strftime(Val(job.end_date))) ELSE None,
     status |-> job.status,
     workerCount |-> Len(JobWorkers(job, ws))]

format_worker(worker) ==
    [id |-> worker.id,
     name |-> worker.name,
     role |-> worker.role,
     jobId |-> worker.job_id]

Error(code, message) == [status |-> code, body |-> [error |-> message]]

(***************************************************************************)
(* POST /jobs                                                              *)
(***************************************************************************)
\* The outcome of the handler on the JSON object `data`: the response and
\* the jobs table after it.
create_job(data, js, ws) ==
    IF ~TruthyStr(data.name) \/ ~TruthyStr(data.customer)
    THEN [response |-> Error(400, "Name and customer are required"), jobs |-> js]
    ELSE
      LET start_date == parse_date(data.startDate)
          end_date == IF start_date = Raised("TypeError") THEN None
                      ELSE parse_date(data.endDate)
          status == data.status
      IN IF start_date = Raised("TypeError") \/ end_date = Raised("TypeError")
         THEN [response |-> Error(500, "Internal server error"), jobs |-> js]
         ELSE IF TruthyStr(status) /\ Val(status) \notin JobStatuses
         THEN [response |-> Error(400, "Invalid status"), jobs |-> js]
         ELSE
           LET new_job == [id |-> NextId(js),
                           name |-> Val(data.name),
                           customer |-> Val(data.customer),
                           start_date |-> start_date,
                           end_date |-> end_date,
                           status |-> status]
           IN [response |-> [status |-> 201, body |-> format_job(new_job, ws)],
               jobs |-> js \cup {new_job}]

\* The JSON bodies posted to /jobs: bodies with every key, and bodies that
\* leave out the name, the customer, the dates or carry an unknown status.
JobDataIn ==
    {[name |-> Some(n), customer |-> Some("C"), startDate |-> Some("2024-3-15"),
      endDate |-> Some("bad"), status |-> st] :
        <<n, st>> \in {<<"A", None>>, <<"ab", Some("In Progress")>>,
                       <<"A", Some("Completed")>>, <<"ab", Some("Completed")>>}}
    \cup [name : {None, Some("")}, customer : {Some("C")},
          startDate : {Some("2024-3-15")}, endDate : {Some("bad")}, status : {None}]
    \cup [name : {Some("A")}, customer : {None, Some("")},
          startDate : {Some("2024-3-15")}, endDate : {Some("bad")}, status : {None}]
    \cup [name : {Some("A")}, customer : {Some("C")},
          startDate : {None, Some("2024-3-15")}, endDate : {None, Some("bad")},
          status : {None, Some("Bogus")}]

CreateJob ==
    \E data \in JobDataIn :
      LET out == create_job(data, jobs, workers) IN
        /\ Cardinality(assigned) < MaxJobs
        /\ request' = [op |-> "create_job", data |-> data]
        /\ response' = out.response
        /\ jobs' = out.jobs
        /\ assigned' = assigned \cup (Ids(out.jobs) \ Ids(jobs))
        /\ UNCHANGED workers

(***************************************************************************)
(* DELETE /jobs/<int:job_id>                                               *)
(***************************************************************************)
\* Job.query.get_or_404(job_id): Some(row), or the NotFound exception that
\* abort(404) raises.  NotFound is an HTTPException, a subclass of Exception.
get_or_404(js, job_id) ==
    IF job_id \in Ids(js) THEN Some(CHOOSE j \in js : j.id = job_id)
    ELSE Raised("NotFound")

\* Mutant of session_delete: the job's row is deleted and its workers are
\* left as they are.
session_delete_keeps_job_id(job, js, ws) == [jobs |-> js \ {job}, workers |-> ws]

\* db.session.delete(job) and the commit: the relationship Job.workers has
\* the default cascade, so the flush sets job_id to NULL on the job's workers
\* and deletes the job's row.
session_delete(job, js, ws) ==
    [jobs |-> js \ {job},
     workers |-> {IF w.job_id = Some(job.id) THEN [w EXCEPT !.job_id = None] ELSE w
                    : w \in ws}]

\* Mutant of delete_job: the delete is never committed.
delete_job_uncommitted(job_id, js, ws) ==
    IF get_or_404(js, job_id) = Raised("NotFound")
    THEN [response |-> Error(500, "Internal server error"), jobs |-> js, workers |-> ws]
    ELSE [response |-> [status |-> 204, body |-> ""], jobs |-> js, workers |-> ws]

\* The handler's try block catches Exception, NotFound included.
delete_job(job_id, js, ws) ==
    LET job == get_or_404(js, job_id) IN
      IF job = Raised("NotFound")
      THEN [response |-> Error(500, "Internal server error"), jobs |-> js, workers |-> ws]
      ELSE LET after == session_delete(Val(job), js, ws) IN
             [response |-> [status |-> 204, body |-> ""],
              jobs |-> after.jobs, workers |-> after.workers]

\* The ids a request path can name: those assigned in a run and one more.
JobIdsIn == 1..(MaxJobs + 1)

DeleteJob ==
    \E job_id \in JobIdsIn :
      LET out == delete_job(job_id, jobs, workers) IN
        /\ request' = [op |-> "delete_job", job_id |-> job_id]
        /\ response' = out.response
        /\ jobs' = out.jobs
        /\ workers' = out.workers
        /\ UNCHANGED assigned

(***************************************************************************)
(* POST /workers                                                           *)
(***************************************************************************)
\* The row a pending Worker becomes when the session is flushed.
insert_worker(pending, ws) ==
    [id |-> NextId(ws), name |-> pending.name, role |-> pending.role,
     job_id |-> pending.job_id]

\* Worker(name=data['name'], role=data['role'], job_id=data.get('jobId'))
Worker(data) == [name |-> Val(data.name), role |-> Val(data.role), job_id |-> data.jobId]

\* The foreign key job.id is not enforced (SQLite's default), so jobId is
\* stored as given.
create_worker(data, ws) ==
    IF ~TruthyStr(data.name) \/ ~TruthyStr(data.role)
    THEN [response |-> Error(400, "Name and role are required"), workers |-> ws]
    ELSE LET worker == insert_worker(Worker(data), ws) IN
           [response |-> [status |-> 201, body |-> format_worker(worker)],
            workers |-> ws \cup {worker}]

\* The JSON bodies posted to /workers.
WorkerDataIn ==
    {[name |-> Some("W"), role |-> Some("R"), jobId |-> None],
     [name |-> Some("W"), role |-> Some("S"), jobId |-> Some(1)],
     [name |-> Some("W"), role |-> Some("R"), jobId |-> Some(2)]}
    \cup [name : {None, Some("")}, role : {Some("R")}, jobId : {None}]
    \cup [name : {Some("W")}, role : {None, Some("")}, jobId : {Some(1)}]

CreateWorker ==
    \E data \in WorkerDataIn :
      LET out == create_worker(data, workers) IN
        /\ Cardinality(workers) < MaxWorkers
        /\ request' = [op |-> "create_worker", data |-> data]
        /\ response' = out.response
        /\ workers' = out.workers
        /\ UNCHANGED <<jobs, assigned>>

(***************************************************************************)
(* POST /workers/bulk                                                      *)
(***************************************************************************)
\* db.session.commit(): the pending objects are inserted in the order they
\* were added.
RECURSIVE session_commit(_, _)
session_commit(session, ws) ==
    IF session = <<>> THEN ws
    ELSE session_commit(Tail(session), ws \cup {insert_worker(Head(session), ws)})

\* The request's teardown (registered by SQLAlchemy(app)) removes the scoped
\* session: objects added and never committed are discarded.
shutdown_session(session, ws) == ws

\* Mutant of bulk_loop: the workers added before an invalid entry are
\* committed when the loop returns 400.
RECURSIVE bulk_loop_commits_valid(_, _, _, _)
bulk_loop_commits_valid(workers_data, i, session, ws) ==
    IF i > Len(workers_data)
    THEN LET after == session_commit(session, ws)
             created == Ascending(Ids(after) \ Ids(ws))
         IN [response |->
               [status |-> 201,
                body |-> [k \in 1..Len(created) |->
                            format_worker(CHOOSE w \in after : w.id = created[k])]],
             session |-> <<>>,
             workers |-> after]
    ELSE LET data == workers_data[i] IN
           IF ~TruthyStr(data.name) \/ ~TruthyStr(data.role)
           THEN [response |-> Error(400, "Name and role are required for all workers"),
                 session |-> <<>>,
                 workers |-> session_commit(session, ws)]
           ELSE bulk_loop_commits_valid(workers_data, i + 1,
                                        Append(session, Worker(data)), ws)

\* The for loop from entry i on, `session` holding the workers added so far:
\* the first entry without a name or a role returns 400 from inside the loop,
\* leaving the session as it is; after the last entry the session is
\* committed.
RECURSIVE bulk_loop(_, _, _, _)
bulk_loop(workers_data, i, session, ws) ==
    IF i > Len(workers_data)
    THEN LET after == session_commit(session, ws)
             created == Ascending(Ids(after) \ Ids(ws))
         IN [response |->
               [status |-> 201,
                body |-> [k \in 1..Len(created) |->
                            format_worker(CHOOSE w \in after : w.id = created[k])]],
             session |-> <<>>,
             workers |-> after]
    ELSE LET data == workers_data[i] IN
           IF ~TruthyStr(data.name) \/ ~TruthyStr(data.role)
           THEN [response |-> Error(400, "Name and role are required for all workers"),
                 session |-> session,
                 workers |-> ws]
           ELSE bulk_loop(workers_data, i + 1, Append(session, Worker(data)), ws)

\* A JSON body: an array of entries (is_list), or something else, here an
\* object.
JsonList(entries) == [is_list |-> TRUE, entries |-> entries]
NotAList == [is_list |-> FALSE, entries |-> <<>>]

bulk_create_workers(workers_data, ws) ==
    IF ~workers_data.is_list
    THEN [response |-> Error(400, "Invalid data format. Expected array of workers"),
          workers |-> ws]
    ELSE LET out == bulk_loop(workers_data.entries, 1, <<>>, ws) IN
           [response |-> out.response,
            workers |-> shutdown_session(out.session, out.workers)]

BulkEntriesIn ==
    {[name |-> Some("W"), role |-> Some("R"), jobId |-> None],
     [name |-> Some("W"), role |-> Some("S"), jobId |-> Some(1)],
     [name |-> Some("W"), role |-> None, jobId |-> None],
     [name |-> Some(""), role |-> Some("R"), jobId |-> Some(1)]}

BulkDataIn ==
    {NotAList}
    \cup {JsonList(entries) : entries \in UNION {[1..n -> BulkEntriesIn] : n \in 0..MaxBulk}}

BulkCreateWorkers ==
    \E workers_data \in BulkDataIn :
      LET out == bulk_create_workers(workers_data, workers) IN
        /\ Cardinality(workers) + Len(workers_data.entries) <= MaxWorkers
        /\ request' = [op |-> "bulk_create_workers", data |-> workers_data]
        /\ response' = out.response
        /\ workers' = out.workers
        /\ UNCHANGED <<jobs, assigned>>

(***************************************************************************)
(* GET /jobs/<int:job_id>/workers                                          *)
(***************************************************************************)
get_job_workers(job_id, js, ws) ==
    LET job == get_or_404(js, job_id) IN
      IF job = Raised("NotFound")
      THEN Error(500, "Internal server error")
      ELSE LET mine == JobWorkers(Val(job), ws) IN
             [status |-> 200,
              body |-> [k \in 1..Len(mine) |-> format_worker(mine[k])]]

GetJobWorkers ==
    \E job_id \in JobIdsIn :
      /\ request' = [op |-> "get_job_workers", job_id |-> job_id]
      /\ response' = get_job_workers(job_id, jobs, workers)
      /\ UNCHANGED <<jobs, workers, assigned>>

(***************************************************************************)
(* GET /stats                                                              *)
(***************************************************************************)
\* SELECT col, count(id) ... GROUP BY col: one (value, count) row for each
\* distinct value of the column, NULL being a group of its own.
group_by_count(table, col) ==
    {<<v, Cardinality({r \in table : r[col] = v})>> : v \in {r[col] : r \in table}}

\* Mutant of by_status: every status has an entry, 0 for one no job has.
by_status_zero_filled(rows) ==
    [s \in JobStatuses |->
       IF \E row \in rows : row[1] = Some(s)
       THEN (CHOOSE row \in rows : row[1] = Some(s))[2]
       ELSE 0]

\* {status: count for status, count in jobs_by_status if status}; a status is
\* None or Some(s), and the dict is keyed by s.
by_status(rows) ==
    LET kept == {row \in rows : TruthyStr(row[1])} IN
      [s \in {Val(row[1]) : row \in kept} |->
         (CHOOSE row \in kept : Val(row[1]) = s)[2]]

\* dict(workers_by_role)
by_role(rows) ==
    [r \in {row[1] : row \in rows} |-> (CHOOSE row \in rows : row[1] = r)[2]]

get_stats(js, ws) ==
    LET jobs_by_status == group_by_count(js, "status")
        workers_by_role == group_by_count(ws, "role")
    IN [status |-> 200,
        body |-> [jobs |-> [total |-> Cardinality(js),
                            byStatus |-> by_status(jobs_by_status)],
                  workers |-> [total |-> Cardinality(ws),
                               byRole |-> by_role(workers_by_role)]]]

GetStats ==
    /\ request' = [op |-> "get_stats"]
    /\ response' = get_stats(jobs, workers)
    /\ UNCHANGED <<jobs, workers, assigned>>

(***************************************************************************)
(* The query pipeline of the two listings.                                 *)
(***************************************************************************)
\* The characters of the strings the model uses, as ASCII codes.
Chars(s) ==
    CASE s = "" -> <<>>
      [] s = "A" -> <<65>>
      [] s = "B" -> <<66>>
      [] s = "C" -> <<67>>
      [] s = "R" -> <<82>>
      [] s = "S" -> <<83>>
      [] s = "W" -> <<87>>
      [] s = "a" -> <<97>>
      [] s = "ab" -> <<97, 98>>
      [] s = "c" -> <<99>>
      [] s = "s" -> <<115>>
      [] s = "w" -> <<119>>
      [] s = "x" -> <<120>>
      [] s = "Completed" -> <<67, 111, 109, 112, 108, 101, 116, 101, 100>>
      [] s = "In Progress" -> <<73, 110, 32, 80, 114, 111, 103, 114, 101, 115, 115>>

\* lower() of SQL, on ASCII.
lower(cs) == [i \in DOMAIN cs |-> IF cs[i] \in 65..90 THEN cs[i] + 32 ELSE cs[i]]

Contains(hay, needle) ==
    \E k \in 0..(Len(hay) - Len(needle)) :
      \A i \in 1..Len(needle) : hay[k + i] = needle[i]

\* column.ilike(f'%{term}%'): lower(column) LIKE lower('%term%'), for a term
\* without the wildcards % and _.
ilike(value, term) == Contains(lower(Chars(value)), lower(Chars(term)))

\* The rank of a column value in ORDER BY col: NULL sorts before every value,
\* text by its bytes, a datetime by its date.
SortKey(row, col) ==
    CASE col \in {"name", "customer"} -> <<1>> \o Chars(row[col])
      [] col = "status" ->
           IF row.status = None THEN <<0>> ELSE <<1>> \o Chars(Val(row.status))
      [] col \in {"start_date", "end_date"} ->
           IF row[col] = None THEN <<0>> ELSE <<1, Val(row[col])>>

\* Lexicographic order of two sequences of numbers.
SeqLess(a, b) ==
    \E k \in 1..(Len(b)) :
      /\ \A i \in 1..(k - 1) : i <= Len(a) /\ a[i] = b[i]
      /\ (k > Len(a) /\ k - 1 = Len(a)) \/ (k <= Len(a) /\ a[k] < b[k])

\* x comes before y in the result of the query: by the ORDER BY column when
\* there is one, rows with equal keys and unordered queries in rowid order.
Before(x, y, order_by) ==
    IF order_by = None THEN x.id < y.id
    ELSE LET kx == SortKey(x, order_by.col)
             ky == SortKey(y, order_by.col)
         IN IF kx = ky THEN x.id < y.id
            ELSE IF order_by.desc THEN SeqLess(ky, kx) ELSE SeqLess(kx, ky)

\* query.all(): the rows of the query in its order.
query_all(rows, order_by) ==
    [i \in 1..Cardinality(rows) |->
       CHOOSE r \in rows : Cardinality({q \in rows : Before(q, r, order_by)}) = i - 1]

Min2(a, b) == IF a < b THEN a ELSE b

\* Mutant of paginate: the offset is page * per_page.
paginate_skips_a_page(all, page, per_page) ==
    LET p == IF page < 1 THEN 1 ELSE page
        pp == IF per_page < 1 THEN 20 ELSE per_page
        total == Len(all)
    IN [items |-> SubSeq(all, p * pp + 1, Min2((p + 1) * pp, total)),
        total |-> total,
        pages |-> IF total = 0 THEN 0 ELSE (total + pp - 1) \div pp]

\* query.paginate(page=page, per_page=per_page, error_out=False): a page
\* below 1 becomes 1 and a per_page below 1 becomes 20; items are the rows
\* after the first (page - 1) * per_page, at most per_page of them.
paginate(all, page, per_page) ==
    LET p == IF page < 1 THEN 1 ELSE page
        pp == IF per_page < 1 THEN 20 ELSE per_page
        total == Len(all)
    IN [items |-> SubSeq(all, (p - 1) * pp + 1, Min2(p * pp, total)),
        total |-> total,
        pages |-> IF total = 0 THEN 0 ELSE (total + pp - 1) \div pp]

(***************************************************************************)
(* GET /jobs                                                               *)
(***************************************************************************)
\* The filters of the query string, each applied when its parameter is
\* present and not empty; a date that does not parse applies no filter.
job_filter(job, args) ==
    /\ TruthyStr(args.name) => ilike(job.name, Val(args.name))
    /\ TruthyStr(args.customer) => ilike(job.customer, Val(args.customer))
    /\ TruthyStr(args.status) => job.status = args.status
    /\ TruthyStr(args.startAfter) =>
         LET start_date == parse_date(args.startAfter) IN
           start_date # None =>
             job.start_date # None /\ Val(job.start_date) >= Val(start_date)
    /\ TruthyStr(args.endBefore) =>
         LET end_date == parse_date(args.endBefore) IN
           end_date # None =>
             job.end_date # None /\ Val(job.end_date) <= Val(end_date)

SortColumns == {"name", "customer", "start_date", "end_date", "status"}

\* sort_by = request.args.get('sortBy', 'id'); only the five listed columns
\* add an ORDER BY.
job_order(args) ==
    IF args.sortBy # None /\ Val(args.sortBy) \in SortColumns
    THEN [col |-> Val(args.sortBy), desc |-> args.order = Some("desc")]
    ELSE None

\* if page and per_page: the two are truthy when present and not 0.
job_paginated(args) == TruthyInt(args.page) /\ TruthyInt(args.limit)

get_jobs(args, js, ws) ==
    LET query == query_all({j \in js : job_filter(j, args)}, job_order(args)) IN
      IF job_paginated(args)
      THEN LET pagination == paginate(query, Val(args.page), Val(args.limit)) IN
             [status |-> 200,
              body |-> [jobs |-> [k \in 1..Len(pagination.items) |->
                                    format_job(pagination.items[k], ws)],
                        pagination |-> [page |-> Val(args.page),
                                        perPage |-> Val(args.limit),
                                        total |-> pagination.total,
                                        pages |-> pagination.pages]]]
      ELSE [status |-> 200,
            body |-> [jobs |-> [k \in 1..Len(query) |-> format_job(query[k], ws)]]]

NoJobArgs ==
    [name |-> None, customer |-> None, status |-> None, startAfter |-> None,
     endBefore |-> None, sortBy |-> None, order |-> None, page |-> None, limit |-> None]

GetJobs(queries) ==
    \E args \in queries :
      /\ request' = [op |-> "get_jobs", args |-> args]
      /\ response' = get_jobs(args, jobs, workers)
      /\ UNCHANGED <<jobs, workers, assigned>>

(***************************************************************************)
(* GET /workers                                                            *)
(***************************************************************************)
DefaultPage == 1
DefaultPerPage == 10

worker_filter(worker, args) ==
    /\ TruthyStr(args.name) => ilike(worker.name, Val(args.name))
    /\ TruthyStr(args.role) => ilike(worker.role, Val(args.role))
    /\ TruthyInt(args.jobId) => worker.job_id = args.jobId

get_workers(args, ws) ==
    LET page == IF args.page = None THEN DefaultPage ELSE Val(args.page)
        per_page == IF args.limit = None THEN DefaultPerPage ELSE Val(args.limit)
        query == query_all({w \in ws : worker_filter(w, args)}, None)
        pagination == paginate(query, page, per_page)
    IN [status |-> 200,
        body |-> [workers |-> [k \in 1..Len(pagination.items) |->
                                 format_worker(pagination.items[k])],
                  pagination |-> [page |-> page,
                                  perPage |-> per_page,
                                  total |-> pagination.total,
                                  pages |-> pagination.pages]]]

NoWorkerArgs ==
    [name |-> None, role |-> None, jobId |-> None, page |-> None, limit |-> None]

GetWorkers(queries) ==
    \E args \in queries :
      /\ request' = [op |-> "get_workers", args |-> args]
      /\ response' = get_workers(args, workers)
      /\ UNCHANGED <<jobs, workers, assigned>>

(***************************************************************************)
(* The service: any request, one at a time, from the empty store.          *)
(***************************************************************************)
\* The listings asked for between the writes.
JobQueriesIn ==
    {NoJobArgs,
     [NoJobArgs EXCEPT !.name = Some("A")],
     [NoJobArgs EXCEPT !.name = Some("ab")],
     [NoJobArgs EXCEPT !.page = Some(1), !.limit = Some(1)]}

WorkerQueriesIn ==
    {NoWorkerArgs, [NoWorkerArgs EXCEPT !.jobId = Some(1)]}

Init ==
    /\ jobs = {}
    /\ workers = {}
    /\ assigned = {}
    /\ request = [op |-> "none"]
    /\ response = [status |-> 0, body |-> None]

Next ==
    \/ CreateJob
    \/ DeleteJob
    \/ CreateWorker
    \/ BulkCreateWorkers
    \/ GetJobWorkers
    \/ GetStats
    \/ GetJobs(JobQueriesIn)
    \/ GetWorkers(WorkerQueriesIn)

Spec == Init /\ [][Next]_vars

(***************************************************************************)
(* The listings over any store: the store is drawn from the tables the     *)
(* writes can leave, and the two listings are asked every query of a       *)
(* larger set.                                                             *)
(***************************************************************************)
MaxListJobs == 3      \* job ids of a listed store
MaxListWorkers == 2   \* workers of a listed store

\* Rows create_job stores (the id apart).
JobRowsIn ==
    {[name |-> "A", customer |-> "C", start_date |-> None, end_date |-> None,
      status |-> None],
     [name |-> "ab", customer |-> "C", start_date |-> Some(20240315),
      end_date |-> Some(20240615), status |-> Some("In Progress")],
     [name |-> "A", customer |-> "C", start_date |-> Some(20240615),
      end_date |-> None, status |-> Some("Completed")]}

WithId(row, id) ==
    [id |-> id, name |-> row.name, customer |-> row.customer,
     start_date |-> row.start_date, end_date |-> row.end_date, status |-> row.status]

\* A jobs table: any set of ids (deletions leave gaps), any row under each.
JobTables ==
    UNION {{{WithId(f[id], id) : id \in S} : f \in [S -> JobRowsIn]}
             : S \in SUBSET (1..MaxListJobs)}

\* A workers table: ids 1..n (workers are never deleted).
WorkerRow(id) ==
    IF id % 2 = 1 THEN [id |-> id, name |-> "W", role |-> "R", job_id |-> Some(1)]
    ELSE [id |-> id, name |-> "W", role |-> "S", job_id |-> None]

WorkerTables == {{WorkerRow(id) : id \in 1..n} : n \in 0..MaxListWorkers}

PagesIn == {None, Some(-1), Some(0), Some(1), Some(2), Some(3)}
LimitsIn == {None, Some(-2), Some(0), Some(1), Some(2)}

JobQueriesAll ==
    [name : {None, Some("a"), Some("B")}, customer : {None},
     status : {None, Some("In Progress")},
     startAfter : {None, Some("2024-06-15")}, endBefore : {None},
     sortBy : {None, Some("name"), Some("start_date"), Some("startDate")},
     order : {None, Some("desc")},
     page : {None, Some(2)}, limit : {None, Some(1)}]
    \cup [name : {None}, customer : {None, Some("c"), Some("x")}, status : {None},
          startAfter : {None, Some("bad")},
          endBefore : {None, Some("2024-06-15")},
          sortBy : {None, Some("status")}, order : {None, Some("asc")},
          page : {None}, limit : {None}]
    \cup [name : {None}, customer : {None}, status : {None}, startAfter : {None},
          endBefore : {None}, sortBy : {None, Some("name")}, order : {Some("desc")},
          page : PagesIn, limit : LimitsIn]

\* limit=0 is left out of the worker queries.
WorkerQueriesAll ==
    [name : {None, Some("w")}, role : {None, Some("s")}, jobId : {None, Some(1)},
     page : {None}, limit : {None}]
    \cup [name : {None}, role : {None}, jobId : {None},
          page : PagesIn, limit : LimitsIn \ {Some(0)}]

InitList ==
    /\ jobs \in JobTables
    /\ workers \in WorkerTables
    /\ assigned = Ids(jobs)
    /\ request = [op |-> "none"]
    /\ response = [status |-> 0, body |-> None]

\* A listing leaves the store as it is, so one query of each store shows
\* every response the store can give.
ListJobs == request.op = "none" /\ GetJobs(JobQueriesAll)

ListWorkers == request.op = "none" /\ GetWorkers(WorkerQueriesAll)

NextList == ListJobs \/ ListWorkers

SpecList == InitList /\ [][NextList]_vars

(***************************************************************************)
(* Properties.                                                             *)
(***************************************************************************)
ValidWorkerData(data) == TruthyStr(data.name) /\ TruthyStr(data.role)

PositiveInt(x) == x # None /\ Val(x) > 0

HasPagination(body) == "pagination" \in DOMAIN body

\* C1: POST /jobs with a name and a customer and with no startDate, endDate
\* or status answers 201, stores the new job and returns it with startDate,
\* endDate and status null and workerCount 0.
C1_CreateJobWithoutDates ==
    (/\ request.op = "create_job"
     /\ TruthyStr(request.data.name)
     /\ TruthyStr(request.data.customer)
     /\ request.data.startDate = None
     /\ request.data.endDate = None
     /\ request.data.status = None)
    => /\ response.status = 201
       /\ response.body.id \in Ids(jobs)
       /\ response.body.startDate = None
       /\ response.body.endDate = None
       /\ response.body.status = None
       /\ response.body.workerCount = 0

\* C2: DELETE /jobs/{id} and GET /jobs/{id}/workers on an id that names no
\* stored job (never created, or deleted before) answer 404 and leave the
\* store unchanged.
C2_UnknownJobIs404 ==
    [][(/\ request'.op \in {"delete_job", "get_job_workers"}
        /\ request'.job_id \notin Ids(jobs))
       => (/\ response'.status = 404
           /\ jobs' = jobs
           /\ workers' = workers)]_vars

\* C3: a bulk creation with an entry that lacks a name or a role, wherever it
\* stands in the array, answers 400 and stores none of the array's workers;
\* one whose entries are all valid answers 201, stores one worker for each
\* entry and returns them in the order of the entries.
C3_BulkAllOrNothing ==
    [][(request'.op = "bulk_create_workers" /\ request'.data.is_list)
       => LET entries == request'.data.entries
              body == response'.body
          IN IF \E i \in 1..Len(entries) : ~ValidWorkerData(entries[i])
             THEN response'.status = 400 /\ workers' = workers
             ELSE /\ response'.status = 201
                  /\ workers \subseteq workers'
                  /\ Cardinality(workers') = Cardinality(workers) + Len(entries)
                  /\ Len(body) = Len(entries)
                  /\ \A i \in 1..Len(entries) :
                       /\ body[i].name = Val(entries[i].name)
                       /\ body[i].role = Val(entries[i].role)
                       /\ body[i].jobId = entries[i].jobId
                       /\ \E w \in workers' \ workers : body[i] = format_worker(w)
                       /\ \A k \in 1..(i - 1) : body[k].id < body[i].id]_vars

\* A bulk request was refused for its second entry, the first being valid.
C3_Witness ==
    /\ request.op = "bulk_create_workers"
    /\ request.data.is_list
    /\ Len(request.data.entries) = 2
    /\ ValidWorkerData(request.data.entries[1])
    /\ ~ValidWorkerData(request.data.entries[2])
    /\ response.status = 400

\* C4: the id given to a new job is the id of no job created before it,
\* deleted ones included; worker ids likewise (workers are never deleted, so
\* the ids given so far are those in the table).
C4_IdsNeverReused ==
    [][/\ \A id \in Ids(jobs') \ Ids(jobs) : id \notin assigned
       /\ Ids(workers) \subseteq Ids(workers')]_vars

\* C5: after a DELETE /jobs/{id} that succeeds no worker has job_id = id, the
\* workers are all kept, those of other jobs as they were, and every worker
\* whose job_id named a stored job names a stored job still or has none.
C5_DeleteLeavesNoDanglingReference ==
    [][(request'.op = "delete_job" /\ response'.status = 204)
       => LET id == request'.job_id IN
            /\ id \in Ids(jobs)
            /\ id \notin Ids(jobs')
            /\ \A w \in workers' : w.job_id # Some(id)
            /\ Ids(workers') = Ids(workers)
            /\ \A w \in workers :
                 IF w.job_id = Some(id)
                 THEN [w EXCEPT !.job_id = None] \in workers'
                 ELSE w \in workers'
            /\ \A w \in workers :
                 (w.job_id # None /\ Val(w.job_id) \in Ids(jobs))
                 => \E v \in workers' :
                      /\ v.id = w.id
                      /\ v.job_id = None \/ Val(v.job_id) \in Ids(jobs')]_vars

\* Job 1 was deleted: its worker (role S is only ever created on job 1) has
\* no job now, and a worker of job 2 is still on job 2.
C5_Witness ==
    /\ request.op = "delete_job"
    /\ request.job_id = 1
    /\ response.status = 204
    /\ \E w \in workers : w.role = "S" /\ w.job_id = None
    /\ \E w \in workers : w.job_id = Some(2) /\ 2 \in Ids(jobs)

\* C6: after a DELETE /jobs/{id} that answers 204 no listing of the jobs,
\* the one filtered by the deleted job's name included, holds a job with
\* that id, and every other job is stored unchanged and listed.
C6_DeletedJobNotListed ==
    [][(request'.op = "delete_job" /\ response'.status = 204)
       => LET id == request'.job_id
              gone == CHOOSE j \in jobs : j.id = id
              listing(args) == get_jobs(args, jobs', workers').body.jobs
              all == listing(NoJobArgs)
          IN /\ jobs' = jobs \ {gone}
             /\ \A args \in JobQueriesIn \cup {[NoJobArgs EXCEPT !.name = Some(gone.name)]} :
                  \A k \in 1..Len(listing(args)) : listing(args)[k].id # id
             /\ \A j \in jobs \ {gone} :
                  \E k \in 1..Len(all) : all[k] = format_job(j, workers')]_vars

\* A job was deleted while a job named A stays stored.
C6_Witness ==
    /\ request.op = "delete_job"
    /\ response.status = 204
    /\ \E j \in jobs : j.name = "A" /\ j.id # request.job_id
    /\ request.job_id \in assigned

\* C7: GET /jobs carries a pagination envelope exactly when page and limit
\* are both present and positive, and otherwise returns every matching job
\* without one; GET /workers always carries one, with page 1 and limit 10
\* when they are not given.
C7_PaginationWhenPositive ==
    /\ request.op = "get_jobs"
       => LET args == request.args IN
            /\ HasPagination(response.body)
                 <=> (PositiveInt(args.page) /\ PositiveInt(args.limit))
            /\ ~HasPagination(response.body)
                 => Len(response.body.jobs)
                      = Cardinality({j \in jobs : job_filter(j, args)})
    /\ request.op = "get_workers"
       => /\ HasPagination(response.body)
          /\ request.args.page = None => response.body.pagination.page = 1
          /\ request.args.limit = None => response.body.pagination.perPage = 10

\* What a listing of `sorted` (the matching rows in the order of the query)
\* must return for page p of l with p, l > 0; `shown` are the rows as
\* formatted.
PageOf(resp, items, sorted, shown, p, l) ==
    LET N == Len(sorted)
        pg == resp.body.pagination
        first == (p - 1) * l
    IN /\ resp.status = 200
       /\ pg.page = p
       /\ pg.perPage = l
       /\ pg.total = N
       /\ pg.pages >= 0 /\ pg.pages * l >= N /\ (pg.pages - 1) * l < N
       /\ Len(items) <= l
       /\ Len(items) = (IF N - first > l THEN l ELSE IF N > first THEN N - first ELSE 0)
       /\ \A k \in 1..Len(items) : items[k] = shown[first + k]
       /\ p > pg.pages => items = <<>>

\* C8: with page = p and limit = l positive, total is the number of matching
\* rows, pages is ceil(total / l), perPage is l, the items are the p-th slice
\* of l of the sorted matching rows, and a page after the last is empty with
\* the same total and pages.
C8_Pagination ==
    /\ (/\ request.op = "get_jobs"
        /\ PositiveInt(request.args.page)
        /\ PositiveInt(request.args.limit))
       => LET args == request.args
              sorted == query_all({j \in jobs : job_filter(j, args)}, job_order(args))
          IN PageOf(response, response.body.jobs, sorted,
                    [k \in 1..Len(sorted) |-> format_job(sorted[k], workers)],
                    Val(args.page), Val(args.limit))
    /\ (/\ request.op = "get_workers"
        /\ request.args.page = None \/ PositiveInt(request.args.page)
        /\ request.args.limit = None \/ PositiveInt(request.args.limit))
       => LET args == request.args
              sorted == query_all({w \in workers : worker_filter(w, args)}, None)
          IN PageOf(response, response.body.workers, sorted,
                    [k \in 1..Len(sorted) |-> format_worker(sorted[k])],
                    IF args.page = None THEN DefaultPage ELSE Val(args.page),
                    IF args.limit = None THEN DefaultPerPage ELSE Val(args.limit))

\* Page 3 of 1 was asked of two matching jobs: no items, total 2, pages 2.
C8_Witness ==
    /\ request.op = "get_jobs"
    /\ request.args.page = Some(3)
    /\ request.args.limit = Some(1)
    /\ request.args.sortBy = Some("name")
    /\ response.body.pagination.total = 2
    /\ response.body.pagination.pages = 2
    /\ response.body.jobs = <<>>

\* C9: POST /jobs without a name or a customer or with a status outside
\* {In Progress, Completed}, and POST /workers without a name or a role,
\* answer 400 and leave the store unchanged; every stored job's status is
\* absent or one of the two.
C9_ValidationIs400 ==
    [][/\ (/\ request'.op = "create_job"
           /\ \/ ~TruthyStr(request'.data.name)
              \/ ~TruthyStr(request'.data.customer)
              \/ /\ request'.data.status # None
                 /\ Val(request'.data.status) \notin JobStatuses)
          => (response'.status = 400 /\ jobs' = jobs /\ workers' = workers)
       /\ (request'.op = "create_worker" /\ ~ValidWorkerData(request'.data))
          => (response'.status = 400 /\ jobs' = jobs /\ workers' = workers)
       /\ \A j \in jobs' : j.status = None \/ Val(j.status) \in JobStatuses]_vars

\* C10: GET /stats reports the store as it is: the number of jobs, for each
\* status some job has the number of jobs with it (no entry for a status no
\* job has, none for the jobs without a status), the number of workers, and
\* for each role some worker has the number of workers with it.
C10_StatsReportTheStore ==
    LET stats == get_stats(jobs, workers)
        present == {s \in JobStatuses : \E j \in jobs : j.status = Some(s)}
        roles == {w.role : w \in workers}
    IN /\ stats.status = 200
       /\ stats.body.jobs.total = Cardinality(jobs)
       /\ DOMAIN stats.body.jobs.byStatus = present
       /\ \A s \in present :
            stats.body.jobs.byStatus[s] = Cardinality({j \in jobs : j.status = Some(s)})
       /\ stats.body.workers.total = Cardinality(workers)
       /\ DOMAIN stats.body.workers.byRole = roles
       /\ \A r \in roles :
            stats.body.workers.byRole[r] = Cardinality({w \in workers : w.role = r})
       /\ request.op = "get_stats" => response = stats

\* The statistics of a store with a job without a status, a Completed job,
\* no job In Progress, and workers of two roles.
C10_Witness ==
    /\ request.op = "get_stats"
    /\ \E j \in jobs : j.status = None
    /\ response.body.jobs.total = Cardinality(jobs)
    /\ DOMAIN response.body.jobs.byStatus = {"Completed"}
    /\ Cardinality(DOMAIN response.body.workers.byRole) = 2

====
